---- MODULE Spec2Model ----
(***************************************************************************)
(* A model of the 104 job crawler (src/104.py): the listing paginator, the *)
(* link extractor, the pooled detail-page extractor with its per-process   *)
(* browser session and error log, the retry pass, and the filter.          *)
(*                                                                         *)
(* Texts are sequences of one-character strings.  The placeholder the code *)
(* writes into every field before extraction is written "#" here.          *)
(***************************************************************************)
EXTENDS Integers, Sequences, FiniteSets, TLC

(* ------------------------------ bounds -------------------------------- *)
\* most listing pages the site reports
MaxPages == 3
\* most sub-elements (u, p, span) in a table row
MaxElems == 2
\* most data cells in the contact block
MaxCells == 3
\* pool processes (config.n_process)
NProcess == 2
\* most job entries on the listing pages together
MaxUrls == 2
\* most rows in a key/value table
MaxRows == 1
\* most records handed to the filter
MaxRecords == 2

(* ------------------------------- texts -------------------------------- *)
Sentinel == <<"#">>
Space == " "
\* the separator the accepted-status row puts between its spans
Separator == <<",">>

RECURSIVE lstrip(_)
lstrip(t) ==
  IF t = <<>> THEN <<>>
  ELSE IF Head(t) = Space THEN lstrip(Tail(t)) ELSE t

RECURSIVE rstrip(_)
rstrip(t) ==
  IF t = <<>> THEN <<>>
  ELSE IF t[Len(t)] = Space THEN rstrip(SubSeq(t, 1, Len(t) - 1)) ELSE t

\* str.strip()
strip(t) == rstrip(lstrip(t))

\* sep.join(parts)
RECURSIVE join(_, _)
join(sep, parts) ==
  IF parts = <<>> THEN <<>>
  ELSE IF Len(parts) = 1 THEN parts[1]
  ELSE parts[1] \o sep \o join(sep, Tail(parts))

\* [f(x) for x in s]
RECURSIVE MapStrip(_)
MapStrip(s) == IF s = <<>> THEN <<>> ELSE <<strip(Head(s))>> \o MapStrip(Tail(s))

\* [x for x in s if x != drop]
RECURSIVE Without(_, _)
Without(s, drop) ==
  IF s = <<>> THEN <<>>
  ELSE (IF Head(s) = drop THEN <<>> ELSE <<Head(s)>>) \o Without(Tail(s), drop)

(* --------------------------- field values ----------------------------- *)
\* A field holds a str or a list of str; both carry a sequence of texts so
\* that values of the two kinds can be compared.
StrVal(t) == [kind |-> "str", v |-> <<t>>]
ListVal(l) == [kind |-> "list", v |-> l]

description_set == {"category", "compensation", "nature", "location",
                    "management", "travel", "schedule", "leave",
                    "startDate", "headcount"}
requirement_set == {"acceptedStatus", "experience", "education", "major",
                    "language", "tools", "skills"}
contact_set == <<"contactName", "contactMethod">>
Fields == {"company", "title", "description"} \cup description_set
            \cup requirement_set
            \cup {"other", "benefits", "contactName", "contactMethod",
                  "sourceURL"}

\* the dict literal of lines 78-83
DefaultData == [f \in Fields |-> StrVal(Sentinel)]

(* ---------------------------- exceptions ------------------------------ *)
Exc(cls, args, line) == [class |-> cls, args |-> args, line |-> line]
NoneAttr(line) ==
  Exc("AttributeError", <<"'NoneType' object has no attribute">>, line)
NoneItem(line) ==
  Exc("TypeError", <<"'NoneType' object is not subscriptable">>, line)
NoKey(line) == Exc("KeyError", <<"title">>, line)

\* the outcome of a block of statements: the dict so far, and the exception
\* that ended the block, if one did
Ok(d) == [data |-> d, exc |-> <<>>]
Raise(d, e) == [data |-> d, exc |-> <<e>>]

(* ------------------------- the detail page ---------------------------- *)
\* A page as BeautifulSoup sees it.  find() gives a sequence of length 0
\* (None) or 1; find_all() gives a sequence.
\*   company     : <<>> | << attr >>, attr = <<>> | << text >>  (the title attribute)
\*   title       : <<>> | << h1 >>,  h1 = <<>> | << attr >>
\*   description : <<>> | << [tag, text] >>
\*   descTable, reqTable : <<>> | << rows >>, row = [h3 : <<>> | <<label>>, elems : Seq(text)]
\*   other, benefits     : <<>> | << p >>, p = <<>> | << text >>
\*   contact     : <<>> | << cells >>

\* lines 84-85
ParseCompany(page, d) ==
  IF page.company = <<>> THEN Raise(d, NoneItem(84))
  ELSE IF page.company[1] = <<>> THEN Raise(d, NoKey(84))
  ELSE Ok([d EXCEPT !["company"] = StrVal(strip(page.company[1][1]))])

\* lines 86-87
ParseTitle(page, d) ==
  IF page.title = <<>> THEN Raise(d, NoneAttr(86))
  ELSE IF page.title[1] = <<>> THEN Raise(d, NoneItem(86))
  ELSE IF page.title[1][1] = <<>> THEN Raise(d, NoKey(86))
  ELSE Ok([d EXCEPT !["title"] = StrVal(strip(page.title[1][1][1]))])

\* lines 88-89
ParseDescription(page, d) ==
  IF page.description = <<>> \/ page.description[1].tag # "p"
    THEN Raise(d, NoneAttr(88))
  ELSE Ok([d EXCEPT !["description"] = StrVal(strip(page.description[1].text))])

\* line 86 on, after what came before gave r
ThenTitle(r, page) == IF r.exc # <<>> THEN r ELSE ParseTitle(page, r.data)

\* line 88 on, after what came before gave r
ThenDescription(r, page) ==
  IF r.exc # <<>> THEN r ELSE ParseDescription(page, r.data)

\* lines 84-89
ParseRequired(page, d0) ==
  ThenDescription(ThenTitle(ParseCompany(page, d0), page), page)

\* one row of the job-description table, lines 94-103
DescRow(item, d) ==
  IF item.h3 = <<>> THEN Raise(d, NoneAttr(94))
  ELSE LET col == item.h3[1] IN
  IF col \notin description_set THEN Ok(d)
  ELSE IF col = "category"
    THEN Ok([d EXCEPT ![col] = ListVal(MapStrip(item.elems))])
  ELSE IF col = "compensation"
    THEN Ok([d EXCEPT ![col] = StrVal(join(<<Space>>, MapStrip(item.elems)))])
  ELSE IF item.elems = <<>> THEN Raise(d, NoneAttr(103))
  ELSE Ok([d EXCEPT ![col] = StrVal(strip(item.elems[1]))])

\* one row of the job-requirement table, lines 108-114
ReqRow(item, d) ==
  IF item.h3 = <<>> THEN Raise(d, NoneAttr(108))
  ELSE LET col == item.h3[1] IN
  IF col \notin requirement_set THEN Ok(d)
  ELSE IF col = "acceptedStatus"
    THEN Ok([d EXCEPT ![col] = ListVal(Without(MapStrip(item.elems), Separator))])
  ELSE IF item.elems = <<>> THEN Raise(d, NoneAttr(114))
  ELSE Ok([d EXCEPT ![col] = StrVal(strip(item.elems[1]))])

\* the for loop of line 93 over the rows found; r is what the rows before
\* gave
RECURSIVE DescRows(_, _)
DescRows(rows, r) ==
  IF rows = <<>> \/ r.exc # <<>> THEN r
  ELSE DescRows(Tail(rows), DescRow(Head(rows), r.data))

\* the for loop of line 107 over the rows found; r is what the rows before
\* gave
RECURSIVE ReqRows(_, _)
ReqRows(rows, r) ==
  IF rows = <<>> \/ r.exc # <<>> THEN r
  ELSE ReqRows(Tail(rows), ReqRow(Head(rows), r.data))

\* lines 91-103
ParseDescTable(page, d) ==
  IF page.descTable = <<>> THEN Raise(d, NoneAttr(93))
  ELSE DescRows(page.descTable[1], Ok(d))

\* lines 105-114
ParseReqTable(page, d) ==
  IF page.reqTable = <<>> THEN Raise(d, NoneAttr(107))
  ELSE ReqRows(page.reqTable[1], Ok(d))

\* line 105 on, after what came before gave r
ThenReqTable(r, page) == IF r.exc # <<>> THEN r ELSE ParseReqTable(page, r.data)

\* lines 91-114
ParseTables(page, d) == ThenReqTable(ParseDescTable(page, d), page)

\* lines 116-125: find(div).find(p).text.strip() inside try/except: pass
ParseBlock(block, field, d) ==
  IF block = <<>> \/ block[1] = <<>> THEN d
  ELSE [d EXCEPT ![field] = StrVal(strip(block[1][1]))]

\* the loop of lines 133-134 from cell i on; contact_set[i] beyond its end
\* raises IndexError, which the except of line 135 swallows with what was
\* assigned so far
RECURSIVE ContactLoop(_, _, _)
ContactLoop(info, i, d) ==
  IF i > Len(info) THEN d
  ELSE IF i > Len(contact_set) THEN d
  ELSE ContactLoop(info, i + 1, [d EXCEPT ![contact_set[i]] = info[i]])

\* lines 127-136
ParseContact(contact, d) ==
  IF contact = <<>> THEN d
  ELSE ContactLoop([i \in 1..Len(contact[1]) |-> StrVal(strip(contact[1][i]))], 1, d)

\* lines 116-139: the three try blocks, then the source URL
ParseOptional(page, job_url, d) ==
  Ok([ParseContact(page.contact,
        ParseBlock(page.benefits, "benefits",
          ParseBlock(page.other, "other", d)))
      EXCEPT !["sourceURL"] = StrVal(job_url)])

\* line 91 on, after what came before gave r
ThenTables(r, page) == IF r.exc # <<>> THEN r ELSE ParseTables(page, r.data)

\* line 116 on, after what came before gave r
ThenOptional(r, page, job_url) ==
  IF r.exc # <<>> THEN r ELSE ParseOptional(page, job_url, r.data)

\* lines 77-139: the page source to the dict, or to the exception raised
ParseSoup(page, job_url) ==
  ThenOptional(ThenTables(ParseRequired(page, DefaultData), page), page, job_url)

(* ------------------- sessions and the error handler ------------------- *)
\* The processes: the orchestrator and the pool's worker processes.
Main == "main"
Workers == {"w" \o ToString(i) : i \in 1..NProcess}
Procs == {Main} \cup Workers

\* A browser session as the registry of all browsers ever started holds it:
\* who started it, who navigated it, how many warm-up navigations it made,
\* and the page it shows (<<>> is the warm-up page).
NewSession(proc) ==
  [creator |-> proc, users |-> {}, warm |-> 0, shown |-> <<>>, open |-> TRUE]

TimeoutException == Exc("TimeoutException", <<"", "None", "None">>, 73)
NotCallable == Exc("TypeError", <<"'bool' object is not callable">>, 73)

\* What the outside world does during one call of parse_job:
\*   create, warm, get : <<>> or << the exception the browser raises >>
\*   page              : the detail page the site serves
NoFault == <<>>

\* one cache for all processes
CachedShared(tl, proc) ==
  IF \E q \in Procs : tl[q] # <<>>
    THEN tl[CHOOSE q \in Procs : tl[q] # <<>>]
    ELSE <<>>
\* threadLocal as one process sees it: the cached session of that process
Cached(tl, proc) == tl[proc]

\* lines 32-46.  Gives the session to use (<<>> when it raised), the
\* registry and the cache afterwards, and the exception raised.
WarmedUp(proc) == [NewSession(proc) EXCEPT !.warm = 1, !.users = {proc}]

get_driver_wait(proc, tl, sessions, env) ==
  IF Cached(tl, proc) # <<>>
    THEN [sid |-> Cached(tl, proc), tl |-> tl, sessions |-> sessions, exc |-> <<>>]
  ELSE IF env.create # <<>>
    THEN [sid |-> <<>>, tl |-> tl, sessions |-> sessions, exc |-> env.create]
  ELSE IF env.warm # <<>>
    THEN [sid |-> <<>>, tl |-> tl,
          sessions |-> Append(sessions, WarmedUp(proc)), exc |-> env.warm]
  ELSE [sid |-> <<Len(sessions) + 1>>,
        tl |-> [tl EXCEPT ![proc] = <<Len(sessions) + 1>>],
        sessions |-> Append(sessions, WarmedUp(proc)), exc |-> <<>>]

\* lines 71-76: navigate and wait.  Gives the session afterwards and the
\* exception raised.  The first operand of the "and" of line 74 is evaluated
\* once, before until() is called: when it is False, until() is handed False
\* and calling it raises TypeError; otherwise until() polls for the
\* description element and raises TimeoutException when it never shows.
PageSource(job_url, env) == <<[url |-> job_url, page |-> env.page]>>
Loaded(proc, s, job_url, env) ==
  [s EXCEPT !.users = @ \cup {proc}, !.shown = PageSource(job_url, env)]

Navigate(proc, s, job_url, env) ==
  IF env.get # <<>>
    THEN [s |-> [s EXCEPT !.users = @ \cup {proc}], exc |-> env.get]
  ELSE IF PageSource(job_url, env) = s.shown
    THEN [s |-> Loaded(proc, s, job_url, env), exc |-> <<NotCallable>>]
  ELSE IF env.page.description = <<>>
    THEN [s |-> Loaded(proc, s, job_url, env), exc |-> <<TimeoutException>>]
  ELSE [s |-> Loaded(proc, s, job_url, env), exc |-> <<>>]

\* lines 141-152: the except clause.  e.args[0] of an exception made with no
\* arguments raises IndexError out of the handler, before the append.
HandlerRaises(e) == e.args = <<>>

errMsg(e) == [line |-> e.line, error_class |-> e.class, detail |-> e.args[1]]

Handler(job_url, e, error_log) ==
  IF HandlerRaises(e)
    THEN [ret |-> <<>>, raised |-> <<Exc("IndexError", <<"tuple index out of range">>, 143)>>,
          error_log |-> error_log]
    ELSE [ret |-> <<>>, raised |-> <<>>,
          error_log |-> Append(error_log, [url |-> job_url, msg |-> errMsg(e)])]

\* lines 68-152, run by process proc.  ret is <<>> for None and <<data>> for
\* the dict; raised is the exception that leaves parse_job, if one does.
\* what parse_job gives back and leaves behind
Outcome(h, tl, sessions) ==
  [ret |-> h.ret, raised |-> h.raised, error_log |-> h.error_log,
   tl |-> tl, sessions |-> sessions]

\* lines 77-139, then return or except
Parsed(r, job_url, error_log, tl, sessions) ==
  IF r.exc # <<>> THEN Outcome(Handler(job_url, r.exc[1], error_log), tl, sessions)
  ELSE Outcome([ret |-> <<r.data>>, raised |-> <<>>, error_log |-> error_log],
               tl, sessions)

\* lines 71-76 on session id, then the rest
Navigated(n, id, job_url, env, error_log, tl, sessions) ==
  IF n.exc # <<>>
    THEN Outcome(Handler(job_url, n.exc[1], error_log), tl,
                 [sessions EXCEPT ![id] = n.s])
  ELSE Parsed(ParseSoup(env.page, job_url), job_url, error_log, tl,
              [sessions EXCEPT ![id] = n.s])

\* line 70, then the rest
Acquired(g, proc, job_url, env, error_log) ==
  IF g.exc # <<>>
    THEN Outcome(Handler(job_url, g.exc[1], error_log), g.tl, g.sessions)
  ELSE Navigated(Navigate(proc, g.sessions[g.sid[1]], job_url, env), g.sid[1],
                 job_url, env, error_log, g.tl, g.sessions)

parse_job(proc, job_url, env, tl, sessions, error_log) ==
  Acquired(get_driver_wait(proc, tl, sessions, env), proc, job_url, env, error_log)

(* --------------------------- link extraction -------------------------- *)
\* A listing snapshot's html is the sequence of its job-entry containers,
\* each the href of its js-job-link anchor: "//" and the rest.
Href(j) == <<"/", "/", j>>

\* line 63: "https://" + href[2:]
JobUrl(href) == <<"https://">> \o SubSeq(href, 3, Len(href))

\* lines 59-65
RECURSIVE get_job_urls(_)
get_job_urls(page_source) ==
  IF page_source = <<>> THEN <<>>
  ELSE <<JobUrl(Head(page_source))>> \o get_job_urls(Tail(page_source))

\* line 202: [url for pack in result for url in pack]
RECURSIVE Flatten(_)
Flatten(result) ==
  IF result = <<>> THEN <<>> ELSE Head(result) \o Flatten(Tail(result))

(* ------------------------------ filtering ----------------------------- *)
\* token in text, for two str
IsSubstring(token, text) ==
  \E i \in 0..(Len(text) - Len(token)) :
    SubSeq(text, i + 1, i + Len(token)) = token

\* Python's "token in value": substring for a str, membership for a list
Contains(token, value) ==
  IF value.kind = "str" THEN IsSubstring(token, value.v[1])
  ELSE \E i \in 1..Len(value.v) : value.v[i] = token

\* [job for job in data if keep(job)]
RECURSIVE Including(_, _, _)
Including(data, col, token) ==
  IF data = <<>> THEN <<>>
  ELSE (IF Contains(token, Head(data)[col]) THEN <<Head(data)>> ELSE <<>>)
         \o Including(Tail(data), col, token)

RECURSIVE Excluding(_, _, _)
Excluding(data, col, token) ==
  IF data = <<>> THEN <<>>
  ELSE (IF ~Contains(token, Head(data)[col]) THEN <<Head(data)>> ELSE <<>>)
         \o Excluding(Tail(data), col, token)

\* lines 223-224 and 226-227: one pass per token
RECURSIVE IncludeAll(_, _, _)
IncludeAll(data, col, tokens) ==
  IF tokens = <<>> THEN data
  ELSE IncludeAll(Including(data, col, Head(tokens)), col, Tail(tokens))

RECURSIVE ExcludeAll(_, _, _)
ExcludeAll(data, col, tokens) ==
  IF tokens = <<>> THEN data
  ELSE ExcludeAll(Excluding(data, col, Head(tokens)), col, Tail(tokens))

\* lines 221-227.  filters is the mapping in configuration order, each entry
\* [col, includes, excludes]; includes and excludes are <<>> for None and
\* <<tokens>> for a list.
\* lines 222-224
Includes(data, f) ==
  IF f.includes # <<>> THEN IncludeAll(data, f.col, f.includes[1]) ELSE data

\* lines 225-227
Excludes(data, f) ==
  IF f.excludes # <<>> THEN ExcludeAll(data, f.col, f.excludes[1]) ELSE data

\* the loop of line 221 stops after the first field
FilterFirstField(data, filters) ==
  IF filters = <<>> THEN data
  ELSE Excludes(Includes(data, Head(filters)), Head(filters))

RECURSIVE Filter(_, _)
Filter(data, filters) ==
  IF filters = <<>> THEN data
  ELSE Filter(Excludes(Includes(data, Head(filters)), Head(filters)), Tail(filters))

\* the set takes the title of each job too
CompaniesAndTitles(data) ==
  {<<f, data[i][f]>> : i \in 1..Len(data), f \in {"company", "title"}}
\* lines 231-234
Companies(data) == {data[i]["company"] : i \in 1..Len(data)}

\* None entries are kept, as records of placeholders
KeepNone(data) ==
  [i \in 1..Len(data) |-> IF data[i] = <<>> THEN DefaultData ELSE data[i][1]]
\* line 216: [job for job in data if job is not None]
RECURSIVE NotNone(_)
NotNone(data) ==
  IF data = <<>> THEN <<>> ELSE Head(data) \o NotNone(Tail(data))

(* ------------------------------- state -------------------------------- *)
VARIABLES
  pc,            \* where main() is
  config,        \* config.filters
  n_pages,       \* line 183
  listing,       \* the listing browser: its session, the page it shows,
                 \* whether a click's page is still loading, and whether
                 \* a wait of main() timed out
  page_sources,  \* line 188
  job_urls,      \* line 202
  next_task,     \* the next task of imap(parse_job, job_urls) to hand out
  running,       \* per pool process, the task it runs (0: idle)
  results,       \* per task, <<>> or << what the task sent back >>
  data,          \* line 206, then line 213
  tl,            \* threadLocal.driver/wait, per process
  sessions,      \* every browser started so far
  error_log,     \* the module global error_log, per process
  logs,          \* line 209
  retried,       \* the URLs parse_job was called on by line 213, in order
  records,       \* data after line 216
  filtered,      \* data after line 227
  log,           \* lines 215-234
  call,          \* a single call of parse_job: its input, and the caller's
                 \* error_log and browsers before it
  out            \* a single call of parse_job: what it gave back

vars == <<pc, config, n_pages, listing, page_sources, job_urls, next_task,
          running, results, data, tl, sessions, error_log, logs, retried,
          records, filtered, log, call, out>>

(* ------------------------------- inputs ------------------------------- *)
T(c) == <<c>>

GoodPage ==
  [company |-> << <<T("a")>> >>,
   title |-> << << <<T("b")>> >> >>,
   description |-> <<[tag |-> "p", text |-> T("a")]>>,
   descTable |-> << << [h3 |-> <<"nature">>, elems |-> <<T("a")>>] >> >>,
   reqTable |-> << << [h3 |-> <<"acceptedStatus">>, elems |-> <<T("a"), T(","), T("b")>>] >> >>,
   other |-> << <<T("a")>> >>,
   benefits |-> << <<T("b")>> >>,
   contact |-> << <<T("a"), T("b")>> >>]

\* the title element is missing
NoTitlePage == [GoodPage EXCEPT !.title = <<>>]

EnvOk(page) == [create |-> NoFault, warm |-> NoFault, get |-> NoFault, page |-> page]
WebDriverException(line) == Exc("WebDriverException", <<"Reached error page">>, line)
\* an exception made with no arguments, as http.client raises NotConnected()
NotConnected(line) == Exc("NotConnected", <<>>, line)

PipelineEnvs ==
  {EnvOk(GoodPage), EnvOk(NoTitlePage),
   [EnvOk(GoodPage) EXCEPT !.get = <<NotConnected(72)>>],
   [EnvOk(GoodPage) EXCEPT !.warm = <<WebDriverException(42)>>]}

\* the job entries the snapshots hold
RECURSIVE Entries(_)
Entries(sources) ==
  IF sources = <<>> THEN 0 ELSE Len(Head(sources).html) + Entries(Tail(sources))

\* what listing page p may hold when the snapshots so far hold n entries:
\* no entry, one entry of its own, or that and the entry of page 1 again
ListingHtmls(p, n) ==
  {html \in {<<>>, <<Href("j" \o ToString(p))>>,
             <<Href("j" \o ToString(p)), Href("j1")>>} :
     n + Len(html) <= MaxUrls}

NoFilter == <<>>
PipelineConfigs ==
  {NoFilter,
   <<[col |-> "sourceURL", includes |-> << <<T("j1")>> >>, excludes |-> <<>>]>>}

(* ----------------------------- the pipeline --------------------------- *)
Init ==
  /\ pc = "search"
  /\ config \in PipelineConfigs
  /\ n_pages = 0
  /\ listing = [sid |-> 0, shown |-> 0, loading |-> FALSE, timeout |-> FALSE]
  /\ page_sources = <<>>
  /\ job_urls = <<>>
  /\ next_task = 1
  /\ running = [w \in Workers |-> 0]
  /\ results = <<>>
  /\ data = <<>>
  /\ tl = [p \in Procs |-> <<>>]
  /\ sessions = <<>>
  /\ error_log = [p \in Procs |-> <<>>]
  /\ logs = <<>>
  /\ retried = <<>>
  /\ records = <<>>
  /\ filtered = <<>>
  /\ log = [Total |-> 0, Parsed |-> 0, Filtered |-> 0, Companies |-> 0]
  /\ call = <<>>
  /\ out = <<>>

\* the timeout is caught and the run goes on
AfterWaitCaught(outcome) == "collect"
\* lines 177-179 and 192-193: where main() is after wait.until().  Nothing
\* catches the TimeoutException, which ends main().
AfterWait(outcome) == IF outcome = "timeout" THEN "aborted" ELSE "collect"

\* lines 156-186: start the listing browser, search, wait for the result
\* page, read the page count.  A wait that times out raises out of main().
Search ==
  /\ pc = "search"
  /\ sessions' = Append(sessions, [NewSession(Main) EXCEPT !.users = {Main}])
  /\ \E outcome \in {"loaded", "timeout"}, n \in 1..MaxPages :
       /\ listing' = [sid |-> Len(sessions) + 1, shown |-> 1, loading |-> FALSE,
                      timeout |-> outcome = "timeout"]
       /\ pc' = AfterWait(outcome)
       /\ n_pages' = IF outcome = "timeout" THEN n_pages ELSE n
  /\ UNCHANGED <<config, page_sources, job_urls, next_task, running, results,
                 data, tl, error_log, logs, retried, records, filtered, log,
                 call, out>>

\* The iterations range(n_pages - 2) makes.
Iterations(n) == IF n - 2 > 0 THEN n - 2 ELSE 0

\* lines 189-193, one iteration: snapshot, click, wait.  The first operand
\* of the "and" of line 192 compares a URL with a page source and is always
\* True, so until() polls only for the next-page control, which the page
\* still on display has too: the wait may end before the next page is
\* there ("early").  A wait that times out raises out of main().
CollectPage ==
  /\ pc = "collect"
  /\ Len(page_sources) < Iterations(n_pages)
  /\ \E html \in ListingHtmls(listing.shown, Entries(page_sources)) :
       page_sources' = Append(page_sources, [page |-> listing.shown, html |-> html])
  /\ \E outcome \in {"loaded", "early", "timeout"} :
       /\ pc' = AfterWait(outcome)
       /\ listing' = IF outcome = "loaded"
                       THEN [listing EXCEPT !.shown = @ + 1, !.loading = FALSE]
                       ELSE [listing EXCEPT !.loading = TRUE,
                                            !.timeout = outcome = "timeout"]
  /\ UNCHANGED <<config, n_pages, job_urls, next_task, running, results, data,
                 tl, sessions, error_log, logs, retried, records, filtered,
                 log, call, out>>

\* the browser finishes loading the page the click asked for
PageLoads ==
  /\ pc = "collect"
  /\ listing.loading
  /\ listing' = [listing EXCEPT !.shown = @ + 1, !.loading = FALSE]
  /\ UNCHANGED <<pc, config, n_pages, page_sources, job_urls, next_task,
                 running, results, data, tl, sessions, error_log, logs,
                 retried, records, filtered, log, call, out>>

\* lines 194-196: the last snapshot, and quit
LastPage ==
  /\ pc = "collect"
  /\ Len(page_sources) >= Iterations(n_pages)
  /\ \E html \in ListingHtmls(listing.shown, Entries(page_sources)) :
       page_sources' = Append(page_sources, [page |-> listing.shown, html |-> html])
  /\ sessions' = [sessions EXCEPT ![listing.sid].open = FALSE]
  /\ pc' = "links"
  /\ UNCHANGED <<config, n_pages, listing, job_urls, next_task, running,
                 results, data, tl, error_log, logs, retried, records,
                 filtered, log, call, out>>

\* the orders n tasks of a pool may finish in: order[k] is the task that
\* finishes k-th
Orders(n) == {f \in [1..n -> 1..n] : \A i, j \in 1..n : f[i] = f[j] => i = j}

\* results land in the order the tasks finish
LinkSlotByCompletion(task, k) == k
\* line 200: the slot of result a task's list goes to when the task is the
\* k-th to finish; imap yields in task order
LinkSlot(task, k) == task

\* line 200: list(p.imap(get_job_urls, page_sources)) when the tasks finish
\* in this order
LinkResult(order) ==
  [slot \in 1..Len(page_sources) |->
     get_job_urls(page_sources[order[CHOOSE k \in 1..Len(page_sources) :
                                       LinkSlot(order[k], k) = slot]].html)]

\* lines 198-205: the link pool, and the start of the extraction pool.  Each
\* pool process starts as a copy of the orchestrator's memory.
CollectLinks ==
  /\ pc = "links"
  /\ \E order \in Orders(Len(page_sources)) :
       job_urls' = Flatten(LinkResult(order))
  /\ results' = [i \in 1..Len(job_urls') |-> <<>>]
  /\ tl' = [p \in Procs |-> tl[Main]]
  /\ error_log' = [p \in Procs |-> error_log[Main]]
  /\ pc' = "parsing"
  /\ UNCHANGED <<config, n_pages, listing, page_sources, next_task, running,
                 data, sessions, logs, retried, records, filtered, log, call,
                 out>>

\* imap hands the tasks out in order, one at a time, to idle pool processes
StartTask(w) ==
  /\ pc = "parsing"
  /\ running[w] = 0
  /\ next_task <= Len(job_urls)
  /\ running' = [running EXCEPT ![w] = next_task]
  /\ next_task' = next_task + 1
  /\ UNCHANGED <<pc, config, n_pages, listing, page_sources, job_urls, results,
                 data, tl, sessions, error_log, logs, retried, records,
                 filtered, log, call, out>>

\* results land in the order the tasks finish
SlotByCompletion(task, w) ==
  Cardinality({i \in 1..Len(results) : results[i] # <<>>}) + 1
\* the slot of the result sequence a finished task's result goes to
ResultSlot(task, w) == task

\* a pool process runs parse_job on its task and sends back what it returned
\* or raised; its session cache and its error_log are its own
FinishTask(w) ==
  /\ pc = "parsing"
  /\ running[w] # 0
  /\ \E env \in PipelineEnvs :
       \E r \in {parse_job(w, job_urls[running[w]], env, tl, sessions, error_log[w])} :
          /\ results' = [results EXCEPT ![ResultSlot(running[w], w)] =
                           <<[ret |-> r.ret, raised |-> r.raised]>>]
          /\ tl' = r.tl
          /\ sessions' = r.sessions
          /\ error_log' = [error_log EXCEPT ![w] = r.error_log]
  /\ running' = [running EXCEPT ![w] = 0]
  /\ UNCHANGED <<pc, config, n_pages, listing, page_sources, job_urls,
                 next_task, data, logs, retried, records, filtered, log, call,
                 out>>

\* lines 206-207: list() takes the next result of imap, in task order; a
\* task that raised makes next() raise in main(), which ends the run
Consume ==
  /\ pc = "parsing"
  /\ Len(data) < Len(job_urls)
  /\ results[Len(data) + 1] # <<>>
  /\ IF results[Len(data) + 1][1].raised # <<>>
       THEN pc' = "aborted" /\ UNCHANGED data
       ELSE pc' = pc /\ data' = Append(data, results[Len(data) + 1][1].ret)
  /\ UNCHANGED <<config, n_pages, listing, page_sources, job_urls, next_task,
                 running, results, tl, sessions, error_log, logs, retried,
                 records, filtered, log, call, out>>

\* the loop of lines 212-213 from entry i on, run by the orchestrator
\* line 213, once: data.append(parse_job(url))
Retried(r, url, st) ==
  [data |-> IF r.raised = <<>> THEN Append(st.data, r.ret) ELSE st.data,
   tl |-> r.tl, sessions |-> r.sessions, error_log |-> r.error_log,
   retried |-> Append(st.retried, url), raised |-> r.raised]

RECURSIVE RetryLoop(_, _, _, _)
RetryLoop(lg, envs, i, st) ==
  IF i > Len(lg) \/ st.raised # <<>> THEN st
  ELSE RetryLoop(lg, envs, i + 1,
         Retried(parse_job(Main, lg[i].url, envs[i], st.tl, st.sessions,
                           st.error_log),
                 lg[i].url, st))

\* the retry pass begins as soon as every task was handed to a pool process
ImapHandedOut == next_task > Len(job_urls)
\* lines 206-207: list() has taken the result of every task
ImapExhausted == Len(data) = Len(job_urls)

\* lines 209-213: copy the orchestrator's error_log and retry its entries
RetryPass ==
  /\ pc = "parsing"
  /\ ImapExhausted
  /\ logs' = error_log[Main]
  /\ \E envs \in [1..Len(logs') -> PipelineEnvs] :
       \E st \in {RetryLoop(logs', envs, 1,
                   [data |-> data, tl |-> tl, sessions |-> sessions,
                    error_log |-> error_log[Main], retried |-> retried,
                    raised |-> <<>>])} :
          /\ data' = st.data
          /\ tl' = st.tl
          /\ sessions' = st.sessions
          /\ error_log' = [error_log EXCEPT ![Main] = st.error_log]
          /\ retried' = st.retried
          /\ pc' = IF st.raised # <<>> THEN "aborted" ELSE "count"
  /\ UNCHANGED <<config, n_pages, listing, page_sources, job_urls, next_task,
                 running, results, records, filtered, log, call, out>>

\* lines 215-217
Count ==
  /\ pc = "count"
  /\ records' = NotNone(data)
  /\ log' = [log EXCEPT !.Total = Len(data), !.Parsed = Len(records')]
  /\ pc' = "filter"
  /\ UNCHANGED <<config, n_pages, listing, page_sources, job_urls, next_task,
                 running, results, data, tl, sessions, error_log, logs,
                 retried, filtered, call, out>>

\* lines 221-236
FilterStep ==
  /\ pc = "filter"
  /\ filtered' = Filter(records, config)
  /\ log' = [log EXCEPT !.Filtered = Len(filtered'),
                        !.Companies = Cardinality(Companies(filtered'))]
  /\ pc' = "done"
  /\ UNCHANGED <<config, n_pages, listing, page_sources, job_urls, next_task,
                 running, results, data, tl, sessions, error_log, logs,
                 retried, records, call, out>>

Next ==
  \/ Search
  \/ CollectPage
  \/ PageLoads
  \/ LastPage
  \/ CollectLinks
  \/ \E w \in Workers : StartTask(w)
  \/ \E w \in Workers : FinishTask(w)
  \/ Consume
  \/ RetryPass
  \/ Count
  \/ FilterStep

Spec == Init /\ [][Next]_vars

(* ------------------- a single call of parse_job ----------------------- *)
\* sequences over S of length at most n
SeqsUpTo(S, n) == UNION {[1..k -> S] : k \in 0..n}

Texts == {T("a"), <<" ", "a", " ">>, <<" ">>}
ElemTexts == {<<"a", " ">>, <<" ">>, Separator}
CellTexts == {T("a"), <<" ", "b">>}

DescHeads == {<<>>, <<"category">>, <<"compensation">>, <<"nature">>, <<"unknown">>}
ReqHeads == {<<>>, <<"acceptedStatus">>, <<"experience">>, <<"unknown">>}
Rows(heads) == [h3 : heads, elems : SeqsUpTo(ElemTexts, MaxElems)]
Blocks == {<<>>, << <<>> >>} \cup {<< <<t>> >> : t \in CellTexts}
Contacts == {<<>>} \cup {<<cells>> : cells \in SeqsUpTo(CellTexts, MaxCells)}

\* both tables are there and have no rows
BarePage == [GoodPage EXCEPT !.descTable = << <<>> >>, !.reqTable = << <<>> >>]

\* pages that differ in the required elements
RequiredPages ==
  {[GoodPage EXCEPT !.company = c, !.title = t, !.description = d] :
     c \in {<<>>, << <<>> >>} \cup {<< <<x>> >> : x \in Texts},
     t \in {<<>>, << <<>> >>, << << <<>> >> >>} \cup {<< << <<x>> >> >> : x \in Texts},
     d \in {<<>>} \cup {<<[tag |-> g, text |-> x]>> : g \in {"p", "div"}, x \in Texts}}
\* pages that lack one key/value table
TablelessPages ==
  {[GoodPage EXCEPT !.descTable = <<>>], [GoodPage EXCEPT !.reqTable = <<>>]}
\* the page whose description table holds these rows
DescTablePage(rows) == [GoodPage EXCEPT !.descTable = <<rows>>]
\* the page whose requirement table holds these rows
ReqTablePage(rows) == [GoodPage EXCEPT !.reqTable = <<rows>>]
\* pages that differ in the optional blocks
BlockPages ==
  {[pg EXCEPT !.other = o, !.benefits = b, !.contact = c] :
     pg \in {GoodPage, BarePage}, o \in Blocks, b \in Blocks, c \in Contacts}
ExtractPages == RequiredPages \cup TablelessPages \cup BlockPages

\* what a browser call at a line may do: succeed, or raise either exception
BrowserFaults(line) == {NoFault, <<WebDriverException(line)>>, <<NotConnected(line)>>}
FaultEnvs ==
  {[create |-> c, warm |-> w, get |-> g, page |-> pg] :
     c \in BrowserFaults(41), w \in BrowserFaults(42), g \in BrowserFaults(72),
     pg \in {GoodPage, [GoodPage EXCEPT !.description = <<>>]}}

ExtractUrl == JobUrl(Href("j1"))
OtherUrl == JobUrl(Href("j2"))

\* the session cache and registry of a process before the call: no session
\* yet, or a cached one that shows the warm-up page or a detail page
PriorSessions(proc) ==
  {<<>>} \cup
  {<<[WarmedUp(proc) EXCEPT !.shown = sh]>> :
     sh \in {<<>>, PageSource(ExtractUrl, EnvOk(GoodPage)),
             PageSource(OtherUrl, EnvOk(GoodPage))}}
PriorLogs ==
  {<<>>, <<[url |-> OtherUrl, msg |-> errMsg(TimeoutException)]>>}

\* the call parse_job(ExtractUrl) in worker w1, about to be made
ExtractCall(env, ss, lg) ==
  /\ call = <<[proc |-> "w1", url |-> ExtractUrl, env |-> env,
                error_log |-> lg, sessions |-> ss]>>
  /\ sessions = ss
  /\ tl = [p \in Procs |-> IF p = "w1" /\ ss # <<>> THEN <<1>> ELSE <<>>]
  /\ error_log = [p \in Procs |-> IF p = "w1" THEN lg ELSE <<>>]

InitExtract ==
  /\ pc = "extract"
  /\ config = NoFilter
  /\ n_pages = 0
  /\ listing = [sid |-> 0, shown |-> 0, loading |-> FALSE, timeout |-> FALSE]
  /\ page_sources = <<>>
  /\ job_urls = <<>>
  /\ next_task = 1
  /\ running = [w \in Workers |-> 0]
  /\ results = <<>>
  /\ data = <<>>
  /\ \/ \E pg \in ExtractPages : ExtractCall(EnvOk(pg), <<>>, <<>>)
     \/ \E n \in 0..MaxRows : \E rows \in [1..n -> Rows(DescHeads)] :
          ExtractCall(EnvOk(DescTablePage(rows)), <<>>, <<>>)
     \/ \E n \in 0..MaxRows : \E rows \in [1..n -> Rows(ReqHeads)] :
          ExtractCall(EnvOk(ReqTablePage(rows)), <<>>, <<>>)
     \/ \E e \in FaultEnvs, ss \in PriorSessions("w1"), lg \in PriorLogs :
          ExtractCall(e, ss, lg)
  /\ logs = <<>>
  /\ retried = <<>>
  /\ records = <<>>
  /\ filtered = <<>>
  /\ log = [Total |-> 0, Parsed |-> 0, Filtered |-> 0, Companies |-> 0]
  /\ out = <<>>

\* one call parse_job(url) in process proc
Extract ==
  /\ pc = "extract"
  /\ \E r \in {parse_job(call[1].proc, call[1].url, call[1].env, tl, sessions,
                         error_log[call[1].proc])} :
       /\ out' = <<[ret |-> r.ret, raised |-> r.raised]>>
       /\ tl' = r.tl
       /\ sessions' = r.sessions
       /\ error_log' = [error_log EXCEPT ![call[1].proc] = r.error_log]
  /\ pc' = "extracted"
  /\ UNCHANGED <<config, n_pages, listing, page_sources, job_urls, next_task,
                 running, results, data, logs, retried, records, filtered,
                 log, call>>

SpecExtract == InitExtract /\ [][Extract]_vars

(* --------------------------- the filter alone ------------------------- *)
FilterCols == {"company", "category"}
IncludeLists == {<<>>, << <<T("a")>> >>, << <<T("a"), T("b")>> >>}
ExcludeLists ==
  {<<>>, << <<T("b")>> >>, << <<<<"a", "b">>>> >>, << <<<<"a", "b">>, T("b")>> >>}
FilterEntries(col) ==
  [col : {col}, includes : IncludeLists, excludes : ExcludeLists]
\* config.filters: a mapping, so each field at most once, in any order
FilterSpecs ==
  {<<>>}
    \cup UNION {{<<e>> : e \in FilterEntries(c)} : c \in FilterCols}
    \cup UNION {{<<e1, e2>> : e1 \in FilterEntries(c1), e2 \in FilterEntries(c2)} :
                  <<c1, c2>> \in {x \in FilterCols \X FilterCols : x[1] # x[2]}}

\* records as parse_job makes them: company is a str; category is the
\* placeholder or a list
FilterRecords ==
  {[DefaultData EXCEPT !["company"] = StrVal(c), !["category"] = k] :
     c \in {T("a"), <<"a", "b">>},
     k \in {StrVal(Sentinel), ListVal(<<>>), ListVal(<< <<"a", "b">> >>),
            ListVal(<<T("a"), T("b")>>)}}

InitFilter ==
  /\ pc = "filter"
  /\ config \in FilterSpecs
  /\ records \in SeqsUpTo(FilterRecords, MaxRecords)
  /\ n_pages = 0
  /\ listing = [sid |-> 0, shown |-> 0, loading |-> FALSE, timeout |-> FALSE]
  /\ page_sources = <<>>
  /\ job_urls = <<>>
  /\ next_task = 1
  /\ running = [w \in Workers |-> 0]
  /\ results = <<>>
  /\ data = <<>>
  /\ tl = [p \in Procs |-> <<>>]
  /\ sessions = <<>>
  /\ error_log = [p \in Procs |-> <<>>]
  /\ logs = <<>>
  /\ retried = <<>>
  /\ filtered = <<>>
  /\ log = [Total |-> Len(records), Parsed |-> Len(records), Filtered |-> 0,
            Companies |-> 0]
  /\ call = <<>>
  /\ out = <<>>

SpecFilter == InitFilter /\ [][FilterStep]_vars

(* --------------------- the counts and the filter ---------------------- *)
\* data as line 215 finds it: per attempt, None or a record
CountData == SeqsUpTo({<<>>} \cup {<<r>> : r \in FilterRecords}, MaxRecords)

InitCount ==
  /\ pc = "count"
  /\ config \in FilterSpecs
  /\ data \in CountData
  /\ n_pages = 0
  /\ listing = [sid |-> 0, shown |-> 0, loading |-> FALSE, timeout |-> FALSE]
  /\ page_sources = <<>>
  /\ job_urls = <<>>
  /\ next_task = 1
  /\ running = [w \in Workers |-> 0]
  /\ results = <<>>
  /\ tl = [p \in Procs |-> <<>>]
  /\ sessions = <<>>
  /\ error_log = [p \in Procs |-> <<>>]
  /\ logs = <<>>
  /\ retried = <<>>
  /\ records = <<>>
  /\ filtered = <<>>
  /\ log = [Total |-> 0, Parsed |-> 0, Filtered |-> 0, Companies |-> 0]
  /\ call = <<>>
  /\ out = <<>>

NextCount == Count \/ FilterStep

SpecCount == InitCount /\ [][NextCount]_vars

(* ======================== the claims, checked ========================= *)
PoolDrained == pc \in {"count", "filter", "done"}
Paginated == pc \in {"links", "parsing", "count", "filter", "done"}

\* C1 (as claimed; the code breaks it): when the Paginator is done without a
\* wait timeout it holds exactly n_pages snapshots, the k-th of listing
\* page k.
C1_AllPagesCollected ==
  Paginated =>
    /\ Len(page_sources) = n_pages
    /\ \A k \in 1..Len(page_sources) : page_sources[k].page = k

\* the tasks of the parallel pass whose extraction failed
FailedTasks ==
  {i \in 1..Len(results) :
     results[i] # <<>> /\ results[i][1].raised = <<>> /\ results[i][1].ret = <<>>}

\* C2 (as claimed; the code breaks it): after the retry pass, the error
\* collection the orchestrator read holds one entry per failed task, and
\* parse_job was called once more on the URL of each.
C2_FailuresRetried ==
  PoolDrained =>
    /\ Len(logs) = Cardinality(FailedTasks)
    /\ Len(retried) = Cardinality(FailedTasks)
    /\ \A i \in FailedTasks :
         /\ \E j \in 1..Len(logs) : logs[j].url = job_urls[i]
         /\ \E j \in 1..Len(retried) : retried[j] = job_urls[i]

\* the records handed to filtering whose source URL is url
RecordsOf(url) ==
  {k \in 1..Len(records) : records[k]["sourceURL"] = StrVal(url)}

\* C3 (as claimed; the code breaks it): when the records are handed to
\* filtering, every URL whose first attempt failed has had its retry
\* attempt; if that succeeded exactly one record has the URL, and if it
\* failed no record has it and Total minus Parsed is at least 1.
C3_RetryOutcome ==
  pc \in {"filter", "done"} =>
    \A i \in FailedTasks :
      \E j \in 1..Len(retried) :
        /\ retried[j] = job_urls[i]
        /\ Len(data) >= Len(job_urls) + j
        /\ data[Len(job_urls) + j] # <<>> =>
             Cardinality(RecordsOf(job_urls[i])) = 1
        /\ data[Len(job_urls) + j] = <<>> =>
             /\ RecordsOf(job_urls[i]) = {}
             /\ log.Total - log.Parsed >= 1

\* entry is what parse_job gives for url: a record of that URL, or None with
\* the URL in the error_log of some pool process
EntryOf(entry, url) ==
  IF entry # <<>> THEN entry[1]["sourceURL"] = StrVal(url)
  ELSE \E w \in Workers : \E j \in 1..Len(error_log[w]) : error_log[w][j].url = url

C5_SessionAffinity ==
  /\ \A s \in 1..Len(sessions) : sessions[s].users \subseteq {sessions[s].creator}
  /\ \A p \in Procs :
       tl[p] # <<>> =>
         /\ sessions[tl[p][1]].creator = p
         /\ \A q \in Procs \ {p} : tl[q] # tl[p]
  /\ listing.sid # 0 =>
       /\ sessions[listing.sid].users = {Main}
       /\ sessions[listing.sid].shown = <<>>
       /\ \A p \in Procs : tl[p] # <<listing.sid>>

\* two pool processes each hold a session of their own that has shown a
\* detail page, after the listing session was quit
C5_Witness ==
  /\ PoolDrained
  /\ ~sessions[listing.sid].open
  /\ \E p, q \in Workers :
       /\ p # q
       /\ tl[p] # <<>>
       /\ tl[q] # <<>>
       /\ sessions[tl[p][1]].shown # <<>>
       /\ sessions[tl[q][1]].shown # <<>>

\* the browsers process p started through get_driver_wait
CreatedBy(p) ==
  {s \in 1..Len(sessions) : sessions[s].creator = p /\ s # listing.sid}

\* C6 (as claimed; the code breaks it): a process that calls get_driver_wait
\* any number of times starts one browser, with one warm-up navigation.
C6_OneSessionPerWorker ==
  \A p \in Procs :
    /\ Cardinality(CreatedBy(p)) <= 1
    /\ \A s \in CreatedBy(p) : sessions[s].warm = 1

\* C7 (as claimed; the code breaks it): a call of parse_job raises nothing,
\* and either returns a record with the URL and leaves error_log alone, or
\* returns None and appends one entry with the URL.
C7_TwoOutcomes ==
  pc = "extracted" =>
    /\ out[1].raised = <<>>
    /\ \/ /\ out[1].ret # <<>>
          /\ out[1].ret[1]["sourceURL"] = StrVal(call[1].url)
          /\ error_log[call[1].proc] = call[1].error_log
       \/ /\ out[1].ret = <<>>
          /\ Len(error_log[call[1].proc]) = Len(call[1].error_log) + 1
          /\ SubSeq(error_log[call[1].proc], 1, Len(call[1].error_log))
               = call[1].error_log
          /\ error_log[call[1].proc][Len(call[1].error_log) + 1].url = call[1].url

\* C8 (as claimed; the code breaks it): a record that parse_job returns has
\* every field, and none is the empty string or the empty list.
C8_NoEmptyField ==
  (pc = "extracted" /\ out[1].ret # <<>>) =>
    /\ DOMAIN out[1].ret[1] = Fields
    /\ \A f \in Fields : out[1].ret[1][f] \notin {StrVal(<<>>), ListVal(<<>>)}

\* token is a substring of the value: of the str, or of an element of the list
SubstringIn(token, value) ==
  \E i \in 1..Len(value.v) : IsSubstring(token, value.v[i])

\* the record passes every configured field under substring containment
KeptBySubstring(job) ==
  \A e \in 1..Len(config) :
    /\ config[e].includes # <<>> =>
         \A t \in 1..Len(config[e].includes[1]) :
           SubstringIn(config[e].includes[1][t], job[config[e].col])
    /\ config[e].excludes # <<>> =>
         \A t \in 1..Len(config[e].excludes[1]) :
           ~SubstringIn(config[e].excludes[1][t], job[config[e].col])

\* C9 (as claimed; the code breaks it): the filtered result is the
\* sub-sequence of the records that, for every configured field, contain
\* every include token and no exclude token as a substring, list-valued
\* fields too.
C9_SubstringEverywhere ==
  pc = "done" => filtered = SelectSeq(records, KeptBySubstring)

\* the call meets a page whose required elements and tables parse, with no
\* browser fault
OptionalOnly ==
  /\ call[1].env.create = NoFault
  /\ call[1].env.warm = NoFault
  /\ call[1].env.get = NoFault
  /\ call[1].sessions = <<>>
  /\ call[1].env.page.description # <<>>
  /\ ParseRequired(call[1].env.page, DefaultData).exc = <<>>
  /\ ParseTables(call[1].env.page, DefaultData).exc = <<>>

BlockMissing(block) == block = <<>> \/ block[1] = <<>>
ContactMalformed(contact) == contact # <<>> /\ Len(contact[1]) > Len(contact_set)

\* C10 (as claimed; the code breaks it): on such a page a missing or
\* malformed other-conditions, benefits or contact block gives a record
\* whose fields of that block hold the placeholder, and no error entry.
C10_OptionalBlocksDefault ==
  (pc = "extracted" /\ OptionalOnly) =>
    /\ out[1].ret # <<>>
    /\ error_log[call[1].proc] = call[1].error_log
    /\ BlockMissing(call[1].env.page.other) =>
         out[1].ret[1]["other"] = StrVal(Sentinel)
    /\ BlockMissing(call[1].env.page.benefits) =>
         out[1].ret[1]["benefits"] = StrVal(Sentinel)
    /\ (call[1].env.page.contact = <<>> \/ ContactMalformed(call[1].env.page.contact)) =>
         /\ out[1].ret[1]["contactName"] = StrVal(Sentinel)
         /\ out[1].ret[1]["contactMethod"] = StrVal(Sentinel)

\* C11: when the log is written, the distinct-company count is at most the
\* filtered count, which is at most the count of parsed records, which is at
\* most the total count, whatever the records and the filters.
C11_CountsOrdered ==
  /\ pc \in {"filter", "done"} => log.Parsed <= log.Total
  /\ pc = "done" =>
       /\ log.Companies <= log.Filtered
       /\ log.Filtered <= log.Parsed
       /\ log.Parsed <= log.Total
       /\ log.Total = Len(data)
       /\ log.Filtered = Len(filtered)

\* two attempts, one of them None, and a filter that drops the one record
C11_Witness ==
  /\ pc = "done"
  /\ config # <<>>
  /\ log.Total = 2
  /\ log.Parsed = 1
  /\ log.Filtered = 0

\* the sequences with the elements of seq in any order
Perms(seq) ==
  {[i \in 1..Len(seq) |-> seq[f[i]]] : f \in Orders(Len(seq))}
\* a token list, or None, with its tokens in any order
PermutedList(l) == IF l = <<>> THEN {<<>>} ELSE {<<p>> : p \in Perms(l[1])}
\* a filter entry with the tokens of its lists in any order
PermutedEntry(e) ==
  [col : {e.col}, includes : PermutedList(e.includes),
   excludes : PermutedList(e.excludes)]
\* the filters with the fields in any order and the tokens in any order
Permuted(filters) ==
  UNION {{q \in [1..Len(filters) -> UNION {PermutedEntry(filters[i]) :
                                             i \in 1..Len(filters)}] :
            \A i \in 1..Len(filters) : q[i] \in PermutedEntry(p[i])} :
         p \in Perms(filters)}

\* C12: the filtered sequence is the one every reordering of the configured
\* fields, and of the tokens inside each includes and excludes list, gives.
C12_FilterOrderIndependent ==
  pc = "done" => \A c \in Permuted(config) : Filter(records, c) = filtered

\* two fields, one with a two-token list, and a filter that keeps one of
\* two records
C12_Witness ==
  /\ pc = "done"
  /\ Len(config) = 2
  /\ \E i \in 1..2 : config[i].excludes # <<>> /\ Len(config[i].excludes[1]) = 2
  /\ Cardinality(Permuted(config)) >= 4
  /\ Len(records) = 2
  /\ Len(filtered) = 1

\* the link pool has returned
LinksCollected ==
  \/ pc \in {"parsing", "count", "filter", "done"}
  \/ pc = "aborted" /\ ~listing.timeout

\* C13: the combined URL list has one URL per job entry of the snapshots;
\* the URLs of a snapshot are in the order of its entries, and the lists of
\* the snapshots follow each other in snapshot order, whichever order the
\* pool finished them in.
C13_LinksInPageOrder ==
  LinksCollected =>
    /\ Len(job_urls) = Entries(page_sources)
    /\ \A i \in 1..Len(page_sources) :
         \A j \in 1..Len(page_sources[i].html) :
           job_urls[Entries(SubSeq(page_sources, 1, i - 1)) + j]
             = <<"https://", page_sources[i].html[j][3]>>

\* two snapshots, each with an entry, of different jobs
C13_Witness ==
  /\ pc = "parsing"
  /\ Len(page_sources) = 2
  /\ Len(page_sources[1].html) = 1
  /\ Len(page_sources[2].html) = 1
  /\ page_sources[1].html # page_sources[2].html
  /\ Len(job_urls) = 2

ErrorEntries ==
  Len(logs) + Cardinality({x \in Workers \X (1..Len(job_urls)) :
                             x[2] <= Len(error_log[x[1]])})

\* C15 (as claimed; the code breaks it): the retry pass makes as many
\* attempts as there were error entries when it began, one per entry, and
\* no URL occurrence is attempted more than twice.
C15_OneRetryPerEntry ==
  PoolDrained =>
    /\ Len(retried) = ErrorEntries
    /\ Len(retried) <= Len(job_urls)

\* C16 (as claimed; the code breaks it): no two consecutive snapshots are
\* of the same listing page.
C16_SnapshotsAdvance ==
  \A k \in 1..(Len(page_sources) - 1) :
    page_sources[k].page # page_sources[k + 1].page

\* C17: after a wait of the search or of the pagination timed out, the run
\* has ended: no URL list, no extraction task, no retry, no records and no
\* log follow, and no browser but the listing browser was started.
C17_TimeoutAborts ==
  listing.timeout =>
    /\ pc = "aborted"
    /\ job_urls = <<>>
    /\ next_task = 1
    /\ results = <<>>
    /\ data = <<>>
    /\ logs = <<>>
    /\ retried = <<>>
    /\ records = <<>>
    /\ filtered = <<>>
    /\ log = [Total |-> 0, Parsed |-> 0, Filtered |-> 0, Companies |-> 0]
    /\ Len(sessions) = 1

\* a wait of the pagination timed out after a snapshot was taken
C17_Witness ==
  /\ listing.timeout
  /\ Len(page_sources) = 1
  /\ n_pages = 3

\* the optional fields of the two tables that hold the text of one element
SingleFields ==
  (description_set \ {"category", "compensation"})
    \cup (requirement_set \ {"acceptedStatus"})

\* the table a field is read from
TableOf(page, f) ==
  IF f \in description_set THEN page.descTable ELSE page.reqTable

\* the data of field f is absent: no table, no row of that heading, or a
\* row of that heading without a text element
Absent(page, f) ==
  \/ TableOf(page, f) = <<>>
  \/ \A i \in 1..Len(TableOf(page, f)[1]) :
       TableOf(page, f)[1][i].h3 = <<f>> => TableOf(page, f)[1][i].elems = <<>>

\* every row of the table, if the table is there, has its heading
Headed(table) ==
  table # <<>> => \A i \in 1..Len(table[1]) : table[1][i].h3 # <<>>

\* the call meets no browser fault, on a fresh process, and the required
\* elements of the page parse
RequiredOnly ==
  /\ call[1].env.create = NoFault
  /\ call[1].env.warm = NoFault
  /\ call[1].env.get = NoFault
  /\ call[1].sessions = <<>>
  /\ call[1].env.page.description # <<>>
  /\ ParseRequired(call[1].env.page, DefaultData).exc = <<>>

\* C18 (as claimed; the code breaks it): on a page whose required elements
\* parse, absence of the data of a single-element table field gives a
\* record with the placeholder in that field and no error entry.
C18_AbsentFieldKeepsDefault ==
  (/\ pc = "extracted"
   /\ RequiredOnly
   /\ Headed(call[1].env.page.descTable)
   /\ Headed(call[1].env.page.reqTable)) =>
    /\ out[1].raised = <<>>
    /\ out[1].ret # <<>>
    /\ error_log[call[1].proc] = call[1].error_log
    /\ \A f \in SingleFields :
         Absent(call[1].env.page, f) => out[1].ret[1][f] = StrVal(Sentinel)

\* the call gets a browser and the navigation raises nothing
BrowserOk ==
  /\ call[1].env.get = NoFault
  /\ call[1].sessions = <<>> =>
       (call[1].env.create = NoFault /\ call[1].env.warm = NoFault)

\* C19 (as claimed; the code breaks it): when the browser raises nothing,
\* the call returns a record exactly if the page shows the description
\* element and parses, whatever page the session showed before.
C19_OutcomeIgnoresPriorPage ==
  (pc = "extracted" /\ BrowserOk) =>
    /\ out[1].raised = <<>>
    /\ out[1].ret # <<>> <=>
         /\ call[1].env.page.description # <<>>
         /\ ParseSoup(call[1].env.page, call[1].url).exc = <<>>

\* the attempts that gave None
NoneEntries == {k \in 1..Len(data) : data[k] = <<>>}

====
